---------------------------- MODULE Spec2Model ----------------------------
(* Model of the event registration service (eventService) of the Next Dink *)
(* application: one event document holding an ordered registrations array, *)
(* the invited / declined / admin id arrays, and the operations that       *)
(* mutate them.  Array indices are 0-based as in the source; At(s, i)      *)
(* reads element i of an array.  Strings that the code transforms are      *)
(* sequences of characters.                                                *)
EXTENDS Integers, Sequences, FiniteSets, TLC

VARIABLES
    eventExists,      \* the event document exists (eventSnap.exists())
    ownerId,          \* eventData.ownerId
    teamSize,         \* eventData.teamSize
    maxTeams,         \* eventData.maxTeams
    registrations,    \* eventData.registrations
    invitedUserIds,   \* eventData.invitedUserIds
    declinedUserIds,  \* eventData.declinedUserIds
    adminIds,         \* eventData.adminIds
    last,             \* the last call: its arguments and what it returned / threw
    rt,               \* register-then-leave tracker
    version,          \* update counter of the document (transaction precondition)
    tx,               \* per client: the transaction in flight
    events,           \* the other documents of the events collection
    creators,         \* per creator: the eventService.create call in flight
    codeCall,         \* the call of an event-code utility and what it returned
    participants,     \* flat model: the participant documents of the event
    joinedCount,      \* flat model: eventData.joinedCount
    waitlistCount,    \* flat model: eventData.waitlistCount
    leavers           \* flat model: per user, the leaveEvent call in flight

store == <<eventExists, registrations, invitedUserIds, declinedUserIds, adminIds>>
vars == <<eventExists, ownerId, teamSize, maxTeams, registrations, invitedUserIds,
          declinedUserIds, adminIds, last, rt, version, tx, events, creators,
          codeCall, participants, joinedCount, waitlistCount, leavers>>

\* the events collection and the create calls on it
codeVars == <<events, creators>>

\* the event-code utilities
utilVars == <<codeCall>>

\* the flat participant model of the earlier eventService
legacyVars == <<participants, joinedCount, waitlistCount, leavers>>

\* everything but the event document of the registration operations
sideVars == <<codeVars, utilVars, legacyVars>>

-----------------------------------------------------------------------------
(* Bounds *)
MaxWaitlist == 1     \* registrations accepted beyond maxTeams
MaxTeamIds == 2      \* size of the pool generateTeamId() draws from
MaxEvents == 3       \* documents in the events collection

Users == {"u1", "u2"}
AdminInputs == {"u1"}
Clients == {"c1", "c2", "c3"}

\* the user who creates the event
Creator == "u1"

\* <<teamSize, maxTeams>> of the events explored
EventShapes == {<<1, 2>>, <<2, 1>>}

-----------------------------------------------------------------------------
(* Data *)
DisplayNameOf(u) == <<u>>

OpenSlot == [type |-> "open"]
GuestSlot(n) == [type |-> "guest", displayName |-> n]
UserSlot(u, n) == [type |-> "user", userId |-> u, displayName |-> n]

GuestLiteral == <<"G", "u", "e", "s", "t">>
GuestNameInputs == { <<" ", "S">> }

\* TeamMember values a caller can pass
MemberValues ==
    {OpenSlot, GuestSlot(<<"S">>)} \cup {UserSlot(u, DisplayNameOf(u)) : u \in Users}

At(s, i) == s[i + 1]

RECURSIVE TrimStart(_)
TrimStart(s) ==
    IF s # <<>> /\ Head(s) = " " THEN TrimStart(Tail(s)) ELSE s

RECURSIVE TrimEnd(_)
TrimEnd(s) ==
    IF s # <<>> /\ s[Len(s)] = " " THEN TrimEnd(SubSeq(s, 1, Len(s) - 1)) ELSE s

Trim(s) == TrimEnd(TrimStart(s))

\* Array.prototype.includes
Includes(s, x) == \E i \in 1..Len(s) : s[i] = x

\* variant: the array is cut after the last element instead of at index k
FilterIndexNotPop(s, k) == SubSeq(s, 1, Len(s) - 1)

\* Array.prototype.filter keeping the elements whose 0-based index is not k
RECURSIVE FilterIndexNot(_, _)
FilterIndexNot(s, k) ==
    IF s = <<>> THEN <<>>
    ELSE IF k = 0 THEN Tail(s)
    ELSE <<Head(s)>> \o FilterIndexNot(Tail(s), k - 1)

\* variant: the predicate reads === instead of !==
FilterIdEq(s, teamId) == SelectSeq(s, LAMBDA team : team.id = teamId)

\* Array.prototype.filter keeping the teams whose id is not teamId
RECURSIVE FilterIdNot(_, _)
FilterIdNot(s, teamId) ==
    IF s = <<>> THEN <<>>
    ELSE IF Head(s).id # teamId THEN <<Head(s)>> \o FilterIdNot(Tail(s), teamId)
    ELSE FilterIdNot(Tail(s), teamId)

\* Firestore arrayUnion / arrayRemove on an array field
RECURSIVE RemoveAll(_, _)
RemoveAll(s, x) ==
    IF s = <<>> THEN <<>>
    ELSE IF Head(s) = x THEN RemoveAll(Tail(s), x)
    ELSE <<Head(s)>> \o RemoveAll(Tail(s), x)

\* variant: the element is appended whether or not it is present
ArrayUnionAppend(s, x) == Append(s, x)

ArrayUnion(s, x) == IF Includes(s, x) THEN s ELSE Append(s, x)
ArrayRemove(s, x) == RemoveAll(s, x)

\* member.type === "user" && member.userId === userId
IsUserMember(m, u) == m.type = "user" /\ m.userId = u

\* team.members.some(...)
TeamHasUser(team, u) ==
    \E i \in 1..Len(team.members) : IsUserMember(team.members[i], u)

\* registrations.some(team => team.members.some(...))
IsAlreadyRegistered(regs, u) ==
    \E i \in 1..Len(regs) : TeamHasUser(regs[i], u)

\* registrations.findIndex(team => team.members.some(...)), -1 when absent
TeamIndexOfUser(regs, u) ==
    IF IsAlreadyRegistered(regs, u)
    THEN (CHOOSE i \in 1..Len(regs) :
            /\ TeamHasUser(regs[i], u)
            /\ \A j \in 1..(i - 1) : ~TeamHasUser(regs[j], u)) - 1
    ELSE -1

\* registrations.findIndex(team => team.id === teamId), -1 when absent
TeamIndexOfId(regs, teamId) ==
    IF \E i \in 1..Len(regs) : regs[i].id = teamId
    THEN (CHOOSE i \in 1..Len(regs) :
            /\ regs[i].id = teamId
            /\ \A j \in 1..(i - 1) : regs[j].id # teamId) - 1
    ELSE -1

\* team.members.findIndex(member => user member of userId), -1 when absent
MemberIndexOfUser(team, u) ==
    IF TeamHasUser(team, u)
    THEN (CHOOSE i \in 1..Len(team.members) :
            /\ IsUserMember(team.members[i], u)
            /\ \A j \in 1..(i - 1) : ~IsUserMember(team.members[j], u)) - 1
    ELSE -1

\* variant: the comparison reads <= instead of <
StatusOfIndexLe(teamIndex, mt) == IF teamIndex <= mt THEN "joined" ELSE "waitlisted"

\* teamIndex < maxTeams ? "joined" : "waitlisted"
StatusOfIndex(teamIndex, mt) == IF teamIndex < mt THEN "joined" ELSE "waitlisted"

\* variant: the caller's array is spread whole, without slice(1)
Slice1Whole(s) == s

\* members.slice(1)
Slice1(s) == IF Len(s) <= 1 THEN <<>> ELSE SubSeq(s, 2, Len(s))

\* variant: the slot is written in every team, not only in team teamIndex
WithSlotEveryTeam(regs, teamIndex, memberIndex, m) ==
    [i \in 1..Len(regs) |->
        [regs[i] EXCEPT !.members = [@ EXCEPT ![memberIndex + 1] = m]]]

\* copy of registrations with members[memberIndex] of team teamIndex replaced
WithSlot(regs, teamIndex, memberIndex, m) ==
    [regs EXCEPT ![teamIndex + 1] =
        [@ EXCEPT !.members = [@ EXCEPT ![memberIndex + 1] = m]]]

ErrEventNotFound == "Event not found"
ErrTeamSize == "Team must have exactly teamSize member(s)"
ErrAlreadyRegistered == "You are already registered for this event"
ErrNotRegistered == "You are not registered for this event"
ErrMemberNotFound == "Member not found in team"
ErrTeamNotFound == "Team not found"
ErrInvalidSlot == "Invalid slot position"
ErrNotClaimable == "This slot cannot be claimed"
ErrNotCaptain == "Only the team captain can edit team members"
NoErr == ""


-----------------------------------------------------------------------------
(* Transaction bodies: the document a call leaves behind and what it      *)
(* returns.  A body that throws leaves the document as it read it.        *)
Outcome(e, regs, declined, status, teamId) ==
    [err |-> e, registrations |-> regs, declinedUserIds |-> declined,
     status |-> status, teamId |-> teamId]

\* variant: the registration is written before the already-registered check
RegisterTeamTxLateCheck(regs, declined, ts, mt, userId, userDisplayName, members, teamId) ==
    IF Len(members) # ts
    THEN Outcome(ErrTeamSize, regs, declined, "", 0)
    ELSE LET newTeam == [id |-> teamId, createdBy |-> userId,
                         members |-> <<UserSlot(userId, userDisplayName)>>
                                        \o Slice1(members)]
             updatedRegistrations == Append(regs, newTeam)
         IN IF IsAlreadyRegistered(regs, userId)
            THEN Outcome(ErrAlreadyRegistered, updatedRegistrations, declined, "", 0)
            ELSE Outcome(NoErr, updatedRegistrations, declined,
                         StatusOfIndex(Len(updatedRegistrations) - 1, mt), teamId)

\* variant: registering clears the user's decline record
RegisterTeamTxClearsDecline(regs, declined, ts, mt, userId, userDisplayName, members, teamId) ==
    IF Len(members) # ts
    THEN Outcome(ErrTeamSize, regs, declined, "", 0)
    ELSE IF IsAlreadyRegistered(regs, userId)
    THEN Outcome(ErrAlreadyRegistered, regs, declined, "", 0)
    ELSE LET newTeam == [id |-> teamId, createdBy |-> userId,
                         members |-> <<UserSlot(userId, userDisplayName)>>
                                        \o Slice1(members)]
             updatedRegistrations == Append(regs, newTeam)
         IN Outcome(NoErr, updatedRegistrations, RemoveAll(declined, userId),
                    StatusOfIndex(Len(updatedRegistrations) - 1, mt), teamId)

\* variant: the new team is put in front (unshift) instead of appended
RegisterTeamTxUnshift(regs, declined, ts, mt, userId, userDisplayName, members, teamId) ==
    IF Len(members) # ts
    THEN Outcome(ErrTeamSize, regs, declined, "", 0)
    ELSE IF IsAlreadyRegistered(regs, userId)
    THEN Outcome(ErrAlreadyRegistered, regs, declined, "", 0)
    ELSE LET captainMember == UserSlot(userId, userDisplayName)
             newTeam == [id |-> teamId, createdBy |-> userId,
                         members |-> <<captainMember>> \o Slice1(members)]
             updatedRegistrations == <<newTeam>> \o regs
         IN Outcome(NoErr, updatedRegistrations, declined,
                    StatusOfIndex(0, mt), teamId)

\* eventService.registerTeam
RegisterTeamTx(regs, declined, ts, mt, userId, userDisplayName, members, teamId) ==
    IF Len(members) # ts
    THEN Outcome(ErrTeamSize, regs, declined, "", 0)
    ELSE IF IsAlreadyRegistered(regs, userId)
    THEN Outcome(ErrAlreadyRegistered, regs, declined, "", 0)
    ELSE LET captainMember == UserSlot(userId, userDisplayName)
             newTeam == [id |-> teamId, createdBy |-> userId,
                         members |-> <<captainMember>> \o Slice1(members)]
             updatedRegistrations == Append(regs, newTeam)
             teamIndex == Len(updatedRegistrations) - 1
         IN Outcome(NoErr, updatedRegistrations, declined,
                    StatusOfIndex(teamIndex, mt), teamId)

\* variant: a leaving captain takes every team they created with them
LeaveTeamRegsByCreator(regs, userId) ==
    LET teamIndex == TeamIndexOfUser(regs, userId)
        team == At(regs, teamIndex)
    IN IF team.createdBy = userId
       THEN SelectSeq(regs, LAMBDA t : t.createdBy # userId)
       ELSE WithSlot(regs, teamIndex, MemberIndexOfUser(team, userId), OpenSlot)

\* variant: whoever leaves, the whole team is removed
LeaveTeamRegsWholeTeam(regs, userId) ==
    FilterIndexNot(regs, TeamIndexOfUser(regs, userId))

\* eventService.leaveTeam, the registrations it writes
LeaveTeamRegs(regs, userId) ==
    LET teamIndex == TeamIndexOfUser(regs, userId)
        team == At(regs, teamIndex)
    IN IF team.createdBy = userId
       THEN FilterIndexNot(regs, teamIndex)
       ELSE WithSlot(regs, teamIndex, MemberIndexOfUser(team, userId), OpenSlot)

\* eventService.leaveTeam
LeaveTeamTx(regs, declined, userId) ==
    IF TeamIndexOfUser(regs, userId) = -1
    THEN Outcome(ErrNotRegistered, regs, declined, "", 0)
    ELSE IF /\ At(regs, TeamIndexOfUser(regs, userId)).createdBy # userId
            /\ MemberIndexOfUser(At(regs, TeamIndexOfUser(regs, userId)), userId) = -1
    THEN Outcome(ErrMemberNotFound, regs, declined, "", 0)
    ELSE Outcome(NoErr, LeaveTeamRegs(regs, userId), declined, "", 0)

\* variant: only open slots can be claimed
ClaimSlotTxOpenOnly(regs, declined, mt, teamId, memberIndex, userId, userDisplayName) ==
    LET teamIndex == TeamIndexOfId(regs, teamId)
        team == At(regs, teamIndex)
        slot == At(team.members, memberIndex)
    IN IF IsAlreadyRegistered(regs, userId)
       THEN Outcome(ErrAlreadyRegistered, regs, declined, "", 0)
       ELSE IF teamIndex = -1
       THEN Outcome(ErrTeamNotFound, regs, declined, "", 0)
       ELSE IF memberIndex < 0 \/ memberIndex >= Len(team.members)
       THEN Outcome(ErrInvalidSlot, regs, declined, "", 0)
       ELSE IF slot.type # "open"
       THEN Outcome(ErrNotClaimable, regs, declined, "", 0)
       ELSE Outcome(NoErr,
                    WithSlot(regs, teamIndex, memberIndex,
                             UserSlot(userId, userDisplayName)),
                    declined, StatusOfIndex(teamIndex, mt), teamId)

\* eventService.claimSlot
ClaimSlotTx(regs, declined, mt, teamId, memberIndex, userId, userDisplayName) ==
    LET teamIndex == TeamIndexOfId(regs, teamId)
        team == At(regs, teamIndex)
        slot == At(team.members, memberIndex)
    IN IF IsAlreadyRegistered(regs, userId)
       THEN Outcome(ErrAlreadyRegistered, regs, declined, "", 0)
       ELSE IF teamIndex = -1
       THEN Outcome(ErrTeamNotFound, regs, declined, "", 0)
       ELSE IF memberIndex < 0 \/ memberIndex >= Len(team.members)
       THEN Outcome(ErrInvalidSlot, regs, declined, "", 0)
       ELSE IF slot.type # "open" /\ slot.type # "guest"
       THEN Outcome(ErrNotClaimable, regs, declined, "", 0)
       ELSE Outcome(NoErr,
                    WithSlot(regs, teamIndex, memberIndex,
                             UserSlot(userId, userDisplayName)),
                    declined, StatusOfIndex(teamIndex, mt), teamId)

\* variant: the index check reads < 0 instead of <= 0
UpdateTeamMemberTxSlot0(regs, declined, teamId, memberIndex, userId, newMember) ==
    LET teamIndex == TeamIndexOfId(regs, teamId)
        team == At(regs, teamIndex)
    IN IF teamIndex = -1
       THEN Outcome(ErrTeamNotFound, regs, declined, "", 0)
       ELSE IF team.createdBy # userId
       THEN Outcome(ErrNotCaptain, regs, declined, "", 0)
       ELSE IF memberIndex < 0 \/ memberIndex >= Len(team.members)
       THEN Outcome(ErrInvalidSlot, regs, declined, "", 0)
       ELSE Outcome(NoErr, WithSlot(regs, teamIndex, memberIndex, newMember),
                    declined, "", teamId)

\* eventService.updateTeamMember
UpdateTeamMemberTx(regs, declined, teamId, memberIndex, userId, newMember) ==
    LET teamIndex == TeamIndexOfId(regs, teamId)
        team == At(regs, teamIndex)
    IN IF teamIndex = -1
       THEN Outcome(ErrTeamNotFound, regs, declined, "", 0)
       ELSE IF team.createdBy # userId
       THEN Outcome(ErrNotCaptain, regs, declined, "", 0)
       ELSE IF memberIndex <= 0 \/ memberIndex >= Len(team.members)
       THEN Outcome(ErrInvalidSlot, regs, declined, "", 0)
       ELSE Outcome(NoErr, WithSlot(regs, teamIndex, memberIndex, newMember),
                    declined, "", teamId)

\* eventService.removeTeam
RemoveTeamTx(regs, declined, teamId) ==
    Outcome(NoErr, FilterIdNot(regs, teamId), declined, "", teamId)

\* guestNames.map(name => ({type: "guest", displayName: name.trim() || "Guest"}))
GuestMembers(guestNames) ==
    [i \in 1..Len(guestNames) |->
        GuestSlot(IF Trim(guestNames[i]) = <<>> THEN GuestLiteral
                  ELSE Trim(guestNames[i]))]

\* variant: slot 0 is given to the admin as a user slot, as registerTeam does
AddGuestTeamTxCaptain(regs, declined, ts, mt, adminUserId, guestNames, teamId) ==
    IF Len(guestNames) # ts
    THEN Outcome(ErrTeamSize, regs, declined, "", 0)
    ELSE LET newTeam == [id |-> teamId, createdBy |-> adminUserId,
                         members |-> <<UserSlot(adminUserId, <<adminUserId>>)>>
                                        \o Slice1(GuestMembers(guestNames))]
             updatedRegistrations == Append(regs, newTeam)
             teamIndex == Len(updatedRegistrations) - 1
         IN Outcome(NoErr, updatedRegistrations, declined,
                    StatusOfIndex(teamIndex, mt), teamId)

\* eventService.addGuestTeam
AddGuestTeamTx(regs, declined, ts, mt, adminUserId, guestNames, teamId) ==
    IF Len(guestNames) # ts
    THEN Outcome(ErrTeamSize, regs, declined, "", 0)
    ELSE LET newTeam == [id |-> teamId, createdBy |-> adminUserId,
                         members |-> GuestMembers(guestNames)]
             updatedRegistrations == Append(regs, newTeam)
             teamIndex == Len(updatedRegistrations) - 1
         IN Outcome(NoErr, updatedRegistrations, declined,
                    StatusOfIndex(teamIndex, mt), teamId)

\* eventService.declineEvent, the registrations it writes
DeclineEventRegs(regs, userId) ==
    LET teamIndex == TeamIndexOfUser(regs, userId)
        team == At(regs, teamIndex)
        memberIndex == MemberIndexOfUser(team, userId)
    IN IF team.createdBy = userId
       THEN FilterIndexNot(regs, teamIndex)
       ELSE [regs EXCEPT ![teamIndex + 1] =
               [team EXCEPT !.members = [@ EXCEPT ![memberIndex + 1] = OpenSlot]]]

\* variant: the id is appended without the includes() test
DeclineEventTxAppend(regs, declined, userId) ==
    IF TeamIndexOfUser(regs, userId) = -1
    THEN Outcome(ErrNotRegistered, regs, declined, "", 0)
    ELSE Outcome(NoErr, DeclineEventRegs(regs, userId), Append(declined, userId),
                 "", 0)

\* eventService.declineEvent
DeclineEventTx(regs, declined, userId) ==
    IF TeamIndexOfUser(regs, userId) = -1
    THEN Outcome(ErrNotRegistered, regs, declined, "", 0)
    ELSE IF /\ At(regs, TeamIndexOfUser(regs, userId)).createdBy # userId
            /\ MemberIndexOfUser(At(regs, TeamIndexOfUser(regs, userId)), userId) = -1
    THEN Outcome(ErrMemberNotFound, regs, declined, "", 0)
    ELSE Outcome(NoErr, DeclineEventRegs(regs, userId),
                 IF Includes(declined, userId) THEN declined
                 ELSE Append(declined, userId),
                 "", 0)


-----------------------------------------------------------------------------
(* Inputs *)
AllOpen(n) == [i \in 1..n |-> OpenSlot]
AllS(n) == [i \in 1..n |-> <<"S">>]

\* teamData.members: slot 0 is a placeholder the service overwrites, the
\* others are arbitrary TeamMember values; two arrays of a wrong length
RegisterInputs(ts) ==
    {<<OpenSlot>> \o r : r \in [1..(ts - 1) -> MemberValues]}
        \cup {AllOpen(ts - 1), AllOpen(ts + 1)}

\* guestNames: the first name varies, and two arrays of a wrong length
GuestTeamInputs(ts) ==
    {<<n>> \o AllS(ts - 1) : n \in GuestNameInputs}
        \cup {AllS(ts - 1), AllS(ts + 1)}

TeamIdInputs == 1..MaxTeamIds
MemberIndexInputs == -1..2

\* generateTeamId(): an id no stored team carries
FreshTeamIds(regs) == TeamIdInputs \ {regs[i].id : i \in 1..Len(regs)}

\* room left for one more registration in the explored part of the model
HasRoom == Len(registrations) < maxTeams + MaxWaitlist

\* the arguments of a call; a field a call does not take is left blank
Args(userId, teamId, memberIndex, members) ==
    [userId |-> userId, teamId |-> teamId, memberIndex |-> memberIndex,
     members |-> members]
NoArgs == Args("", 0, -1, <<>>)

\* index of the registration of before that is missing in after, -1 if none
RemovedIndex(before, after) ==
    IF Len(after) < Len(before)
    THEN (CHOOSE k \in 1..Len(before) :
            /\ \A i \in 1..(k - 1) : after[i] = before[i]
            /\ k > Len(after) \/ after[k] # before[k]) - 1
    ELSE -1

(* The record of a call: the operation and its arguments, what it threw, *)
(* what it returned, and which registration it removed.  The arguments   *)
(* of a call that threw are not recorded.                                *)
Call(op, args, out, removed) ==
    [op |-> op, args |-> IF out.err = NoErr THEN args ELSE NoArgs,
     err |-> out.err, status |-> out.status, removedIndex |-> removed]

NoOutcome == [err |-> NoErr, status |-> ""]
NoCall == Call("none", NoArgs, NoOutcome, -1)
RtNone == [stage |-> "none", userId |-> "", regs |-> <<>>]

\* const maxAttempts = 10
maxAttempts == 10

\* the callers of eventService.create
Creators == {"c1", "c2"}

\* the codes generateEventCode() returns in the explored part of the model
CodeInputs == {"AAAAA", "BBBBB"}

IdleCreator == [pc |-> "idle"]

\* no event-code utility has been called
NoCodeCall ==
    [op |-> "none", code |-> <<>>, i |-> 0, returned |-> FALSE, valid |-> FALSE]

\* flat model: the users, a participant document that does not exist, and
\* a user with no leaveEvent call in flight
LegacyUsers == {"u1", "u2", "u3"}
NoParticipant == [status |-> "none", waitlistPosition |-> 0]
IdleLeaver == [pc |-> "idle", firstWaitlistedId |-> "null"]

\* the collection, the utilities and the flat model before any call
InitSide ==
    /\ events = <<>>
    /\ creators = [c \in Creators |-> IdleCreator]
    /\ codeCall = NoCodeCall
    /\ participants = [u \in LegacyUsers |-> NoParticipant]
    /\ joinedCount = 0
    /\ waitlistCount = 0
    /\ leavers = [u \in LegacyUsers |-> IdleLeaver]

Init ==
    /\ eventExists = TRUE
    /\ ownerId = Creator
    /\ InitSide
    /\ \E shape \in EventShapes : teamSize = shape[1] /\ maxTeams = shape[2]
    /\ registrations = <<>>
    /\ invitedUserIds = <<>>
    /\ declinedUserIds = <<>>
    /\ adminIds = <<>>
    /\ last = NoCall
    /\ rt = RtNone
    /\ version = 0
    /\ tx = [c \in Clients |-> [pc |-> "idle"]]

\* a transaction run to its commit with no concurrent writer: the body is
\* evaluated on the stored document and what it leaves behind is stored
Transact(op, args, out) ==
    /\ registrations' = out.registrations
    /\ declinedUserIds' = out.declinedUserIds
    /\ last' = Call(op, args, out, RemovedIndex(registrations, out.registrations))
    /\ UNCHANGED <<eventExists, ownerId, teamSize, maxTeams, invitedUserIds,
                   adminIds, version, tx>>
    /\ UNCHANGED sideVars

\* the calls that throw: the outcomes a call can have in a state are
\* collected over its inputs, and one step is taken per throwing outcome
Throws(op, outs) ==
    \E out \in outs :
        /\ out.err # NoErr
        /\ Transact(op, NoArgs, out)
        /\ rt' = RtNone

\* a call on a document that does not exist
Missing(op) ==
    /\ ~eventExists
    /\ Throws(op, {Outcome(ErrEventNotFound, registrations, declinedUserIds, "", 0)})

RegisterTeam ==
    \/ Missing("registerTeam")
    \/ /\ eventExists
       /\ HasRoom
       /\ \E userId \in Users, members \in RegisterInputs(teamSize),
             teamId \in FreshTeamIds(registrations) :
            LET out == RegisterTeamTx(registrations, declinedUserIds, teamSize,
                                      maxTeams, userId, DisplayNameOf(userId),
                                      members, teamId)
            IN /\ out.err = NoErr
               /\ Transact("registerTeam", Args(userId, 0, -1, members), out)
               /\ rt' = [stage |-> "registered", userId |-> userId,
                         regs |-> registrations]
    \/ /\ eventExists
       /\ Throws("registerTeam",
                 {RegisterTeamTx(registrations, declinedUserIds, teamSize, maxTeams,
                                 userId, DisplayNameOf(userId), members, 0) :
                      userId \in Users, members \in RegisterInputs(teamSize)})

LeaveTeam ==
    \/ Missing("leaveTeam")
    \/ /\ eventExists
       /\ \E userId \in Users :
            LET out == LeaveTeamTx(registrations, declinedUserIds, userId)
            IN /\ out.err = NoErr
               /\ Transact("leaveTeam", Args(userId, 0, -1, <<>>), out)
               /\ rt' = IF rt.stage = "registered" /\ rt.userId = userId
                        THEN [rt EXCEPT !.stage = "left"]
                        ELSE RtNone
    \/ /\ eventExists
       /\ Throws("leaveTeam",
                 {LeaveTeamTx(registrations, declinedUserIds, userId) :
                      userId \in Users})

ClaimSlot ==
    \/ Missing("claimSlot")
    \/ /\ eventExists
       /\ \E userId \in Users, teamId \in TeamIdInputs,
             memberIndex \in MemberIndexInputs :
            LET out == ClaimSlotTx(registrations, declinedUserIds, maxTeams, teamId,
                                   memberIndex, userId, DisplayNameOf(userId))
            IN /\ out.err = NoErr
               /\ Transact("claimSlot", Args(userId, teamId, memberIndex, <<>>), out)
               /\ rt' = RtNone
    \/ /\ eventExists
       /\ Throws("claimSlot",
                 {ClaimSlotTx(registrations, declinedUserIds, maxTeams, teamId,
                              memberIndex, userId, DisplayNameOf(userId)) :
                      userId \in Users, teamId \in TeamIdInputs,
                      memberIndex \in MemberIndexInputs})

UpdateTeamMember ==
    \/ Missing("updateTeamMember")
    \/ /\ eventExists
       /\ \E userId \in Users, teamId \in TeamIdInputs,
             memberIndex \in MemberIndexInputs, newMember \in MemberValues :
            LET out == UpdateTeamMemberTx(registrations, declinedUserIds, teamId,
                                          memberIndex, userId, newMember)
            IN /\ out.err = NoErr
               /\ Transact("updateTeamMember",
                           Args(userId, teamId, memberIndex, <<newMember>>), out)
               /\ rt' = RtNone
    \/ /\ eventExists
       /\ Throws("updateTeamMember",
                 {UpdateTeamMemberTx(registrations, declinedUserIds, teamId,
                                     memberIndex, userId, OpenSlot) :
                      userId \in Users, teamId \in TeamIdInputs,
                      memberIndex \in MemberIndexInputs})

RemoveTeam ==
    \/ Missing("removeTeam")
    \/ /\ eventExists
       /\ \E teamId \in TeamIdInputs :
            /\ Transact("removeTeam", Args("", teamId, -1, <<>>),
                        RemoveTeamTx(registrations, declinedUserIds, teamId))
            /\ rt' = RtNone

AddGuestTeam ==
    \/ Missing("addGuestTeam")
    \/ /\ eventExists
       /\ HasRoom
       /\ \E adminUserId \in AdminInputs, guestNames \in GuestTeamInputs(teamSize),
             teamId \in FreshTeamIds(registrations) :
            LET out == AddGuestTeamTx(registrations, declinedUserIds, teamSize,
                                      maxTeams, adminUserId, guestNames, teamId)
            IN /\ out.err = NoErr
               /\ Transact("addGuestTeam", Args(adminUserId, 0, -1, guestNames), out)
               /\ rt' = RtNone
    \/ /\ eventExists
       /\ Throws("addGuestTeam",
                 {AddGuestTeamTx(registrations, declinedUserIds, teamSize, maxTeams,
                                 adminUserId, guestNames, 0) :
                      adminUserId \in AdminInputs,
                      guestNames \in GuestTeamInputs(teamSize)})

DeclineEvent ==
    \/ Missing("declineEvent")
    \/ /\ eventExists
       /\ \E userId \in Users :
            LET out == DeclineEventTx(registrations, declinedUserIds, userId)
            IN /\ out.err = NoErr
               /\ Transact("declineEvent", Args(userId, 0, -1, <<>>), out)
               /\ rt' = RtNone
    \/ /\ eventExists
       /\ Throws("declineEvent",
                 {DeclineEventTx(registrations, declinedUserIds, userId) :
                      userId \in Users})

\* updateDoc(eventRef, {...}) of the array fields
UpdateDoc(op, userId, invited, declined, admins) ==
    \/ Missing(op)
    \/ /\ eventExists
       /\ invitedUserIds' = invited
       /\ declinedUserIds' = declined
       /\ adminIds' = admins
       /\ last' = Call(op, Args(userId, 0, -1, <<>>), NoOutcome, -1)
       /\ rt' = RtNone
       /\ UNCHANGED <<eventExists, ownerId, teamSize, maxTeams, registrations,
                      version, tx>>
       /\ UNCHANGED sideVars

InviteUser ==
    \E userId \in Users :
        UpdateDoc("inviteUser", userId, ArrayUnion(invitedUserIds, userId),
                  declinedUserIds, adminIds)

RemoveInvitation ==
    \E userId \in Users :
        UpdateDoc("removeInvitation", userId, ArrayRemove(invitedUserIds, userId),
                  declinedUserIds, adminIds)

DeclineInvitation ==
    \E userId \in Users :
        UpdateDoc("declineInvitation", userId, ArrayRemove(invitedUserIds, userId),
                  ArrayUnion(declinedUserIds, userId), adminIds)

AddAdmin ==
    \E userId \in Users :
        UpdateDoc("addAdmin", userId, invitedUserIds, declinedUserIds,
                  ArrayUnion(adminIds, userId))

RemoveAdmin ==
    \E userId \in Users :
        UpdateDoc("removeAdmin", userId, invitedUserIds, declinedUserIds,
                  ArrayRemove(adminIds, userId))

\* eventService.delete: the document and everything in it is gone
DeleteEvent ==
    /\ eventExists
    /\ eventExists' = FALSE
    /\ registrations' = <<>>
    /\ invitedUserIds' = <<>>
    /\ declinedUserIds' = <<>>
    /\ adminIds' = <<>>
    /\ last' = Call("delete", NoArgs, NoOutcome, -1)
    /\ rt' = RtNone
    /\ UNCHANGED <<ownerId, teamSize, maxTeams, version, tx>>
    /\ UNCHANGED sideVars

Next ==
    \/ RegisterTeam
    \/ LeaveTeam
    \/ ClaimSlot
    \/ UpdateTeamMember
    \/ RemoveTeam
    \/ AddGuestTeam
    \/ DeclineEvent
    \/ DeleteEvent

Spec == Init /\ [][Next]_vars

(* The event with its invitations: the operations on the invited and    *)
(* declined ids together with the registration operations of a user.     *)
NextInvite ==
    \/ InviteUser
    \/ RemoveInvitation
    \/ DeclineInvitation
    \/ RegisterTeam
    \/ ClaimSlot
    \/ LeaveTeam
    \/ DeclineEvent
    \/ DeleteEvent

SpecInvite == Init /\ [][NextInvite]_vars

(* The id arrays on their own: updateDoc with arrayUnion / arrayRemove.   *)
NextSets ==
    \/ InviteUser
    \/ RemoveInvitation
    \/ DeclineInvitation
    \/ AddAdmin
    \/ RemoveAdmin
    \/ DeleteEvent

SpecSets == Init /\ [][NextSets]_vars

-----------------------------------------------------------------------------
(* Concurrent clients: runTransaction(db, updateFunction).  The update    *)
(* function reads the document, computes, and hands its writes to the     *)
(* commit, which goes through only if the document is still at the        *)
(* version that was read; otherwise the update function is run again.     *)

\* the calls clients make concurrently
RegisterCalls ==
    {[op |-> "registerTeam", userId |-> u, members |-> AllOpen(teamSize)] :
        u \in Users}

GuestTeamCalls ==
    {[op |-> "addGuestTeam", userId |-> a, members |-> g] :
        a \in AdminInputs, g \in GuestTeamInputs(teamSize)}

\* generateTeamId() in the n-th run of client c's update function
ConcTeamId(c, n) == <<c, n>>

\* the update function of a call, run on the document as read
Body(call, regs, declined, teamId) ==
    IF call.op = "registerTeam"
    THEN RegisterTeamTx(regs, declined, teamSize, maxTeams, call.userId,
                        DisplayNameOf(call.userId), call.members, teamId)
    ELSE IF call.op = "claimSlot"
    THEN ClaimSlotTx(regs, declined, maxTeams, call.teamId, call.memberIndex,
                     call.userId, DisplayNameOf(call.userId))
    ELSE AddGuestTeamTx(regs, declined, teamSize, maxTeams, call.userId,
                        call.members, teamId)

\* variant: the commit does not compare versions
CanCommitAlways(readVersion, currentVersion) == TRUE

\* the commit precondition on the document that was read
CanCommit(readVersion, currentVersion) == readVersion = currentVersion

ConcUnchanged ==
    UNCHANGED <<eventExists, ownerId, teamSize, maxTeams, invitedUserIds, adminIds,
                last, rt, sideVars>>

\* a client calls registerTeam or addGuestTeam
Invoke ==
    \E c \in Clients :
        /\ tx[c].pc = "idle"
        /\ \/ \E call \in RegisterCalls :
                 tx' = [tx EXCEPT ![c] =
                           [pc |-> "running", call |-> call, attempt |-> 0]]
           \/ \E call \in GuestTeamCalls :
                 tx' = [tx EXCEPT ![c] =
                           [pc |-> "running", call |-> call, attempt |-> 0]]
        /\ UNCHANGED <<registrations, declinedUserIds, version>>
        /\ ConcUnchanged

\* transaction.get and the update function up to its return or throw
TxRun ==
    \E c \in Clients :
        /\ tx[c].pc = "running"
        /\ LET n == tx[c].attempt + 1
               out == Body(tx[c].call, registrations, declinedUserIds,
                           ConcTeamId(c, n))
           IN tx' = [tx EXCEPT ![c] =
                        IF out.err # NoErr
                        THEN [pc |-> "failed", call |-> tx[c].call, attempt |-> n,
                              err |-> out.err]
                        ELSE [pc |-> "committing", call |-> tx[c].call,
                              attempt |-> n, readVersion |-> version, out |-> out]]
        /\ UNCHANGED <<registrations, declinedUserIds, version>>
        /\ ConcUnchanged

\* the commit goes through: the writes are stored and the call returns
TxCommit ==
    \E c \in Clients :
        /\ tx[c].pc = "committing"
        /\ CanCommit(tx[c].readVersion, version)
        /\ registrations' = tx[c].out.registrations
        /\ declinedUserIds' = tx[c].out.declinedUserIds
        /\ version' = version + 1
        /\ tx' = [tx EXCEPT ![c] =
                     [pc |-> "done", call |-> tx[c].call, attempt |-> tx[c].attempt,
                      status |-> tx[c].out.status, teamId |-> tx[c].out.teamId]]
        /\ ConcUnchanged

\* the document changed since it was read: the update function runs again
TxRetry ==
    \E c \in Clients :
        /\ tx[c].pc = "committing"
        /\ ~CanCommit(tx[c].readVersion, version)
        /\ tx' = [tx EXCEPT ![c] =
                     [pc |-> "running", call |-> tx[c].call, attempt |-> tx[c].attempt]]
        /\ UNCHANGED <<registrations, declinedUserIds, version>>
        /\ ConcUnchanged

NextConc ==
    \/ Invoke
    \/ TxRun
    \/ TxCommit
    \/ TxRetry

SpecConc == Init /\ [][NextConc]_vars

\* C3: every concurrent registerTeam / addGuestTeam call that returned has
\* its registration exactly once in the stored registrations, and returned
\* the status of the index that registration holds
NoLostUpdate ==
    \A c \in Clients :
        tx[c].pc = "done" =>
            /\ Cardinality({i \in 1..Len(registrations) :
                               registrations[i].id = tx[c].teamId}) = 1
            /\ \A i \in 1..Len(registrations) :
                  registrations[i].id = tx[c].teamId =>
                      /\ registrations[i].createdBy = tx[c].call.userId
                      /\ tx[c].status =
                            IF i - 1 < maxTeams THEN "joined" ELSE "waitlisted"

NoLostUpdateWitness ==
    /\ \A c \in Clients : tx[c].pc = "done"
    /\ \E c \in Clients : tx[c].attempt >= 2
    /\ \E c \in Clients : tx[c].status = "waitlisted"
    /\ Cardinality({c \in Clients : tx[c].status = "joined"}) = maxTeams

-----------------------------------------------------------------------------
(* Concurrent claimSlot calls on a guest team an admin has added *)

\* the slots of a guest team after addGuestTeam, updateTeamMember (which
\* leaves slot 0 alone) and claimSlot by u2
GuestTeamSlots(k) ==
    IF k = 1
    THEN {GuestSlot(<<"S">>), UserSlot("u2", DisplayNameOf("u2"))}
    ELSE {OpenSlot, GuestSlot(<<"S">>), UserSlot("u2", DisplayNameOf("u2"))}

ClaimRegistrations(ts) ==
    {<<[id |-> 1, createdBy |-> Creator, members |-> m]>> :
        m \in {f \in [1..ts -> MemberValues] :
                  \A k \in 1..ts : f[k] \in GuestTeamSlots(k)}}

InitClaim ==
    /\ eventExists = TRUE
    /\ ownerId = Creator
    /\ \E shape \in EventShapes : teamSize = shape[1] /\ maxTeams = shape[2]
    /\ registrations \in ClaimRegistrations(teamSize)
    /\ invitedUserIds = <<>>
    /\ declinedUserIds = <<>>
    /\ adminIds = <<>>
    /\ last = NoCall
    /\ rt = RtNone
    /\ version = 0
    /\ tx = [c \in Clients |-> [pc |-> "idle"]]
    /\ InitSide

\* the clients that call claimSlot
ClaimClients == {"c1", "c2"}

\* the claimSlot calls; claimable tells whether, when the call is made, the
\* user is unregistered and the slot exists and is open or a guest
ClaimCalls ==
    {[op |-> "claimSlot", userId |-> u, teamId |-> t, memberIndex |-> m,
      members |-> <<>>,
      claimable |->
          /\ ~IsAlreadyRegistered(registrations, u)
          /\ TeamIndexOfId(registrations, t) # -1
          /\ m < Len(At(registrations, TeamIndexOfId(registrations, t)).members)
          /\ At(At(registrations, TeamIndexOfId(registrations, t)).members,
                m).type \in {"open", "guest"}] :
        u \in Users, t \in TeamIdInputs, m \in 0..(teamSize - 1)}

\* a client calls claimSlot
InvokeClaim ==
    \E c \in ClaimClients :
        /\ tx[c].pc = "idle"
        /\ \E call \in ClaimCalls :
              tx' = [tx EXCEPT ![c] =
                        [pc |-> "running", call |-> call, attempt |-> 0]]
        /\ UNCHANGED <<registrations, declinedUserIds, version>>
        /\ ConcUnchanged

NextClaim ==
    \/ InvokeClaim
    \/ TxRun
    \/ TxCommit
    \/ TxRetry

SpecClaim == InitClaim /\ [][NextClaim]_vars

-----------------------------------------------------------------------------
(* Status calculator *)

\* getRegistrationStatus
GetRegistrationStatus(regs, mt, userId) ==
    LET registrationIndex == TeamIndexOfUser(regs, userId)
    IN IF registrationIndex = -1
       THEN [status |-> "not_registered", waitlistPosition |-> 0]
       ELSE IF registrationIndex < mt
       THEN [status |-> "going", waitlistPosition |-> 0]
       ELSE [status |-> "waitlisted",
             waitlistPosition |-> registrationIndex - mt + 1]

\* a field the returned object does not carry
Undefined == "undefined"

\* what getUserStatusForEvent returns; null is the result with status "null"
StatusResult(status, registrationStatus, waitlistPosition) ==
    [status |-> status, registrationStatus |-> registrationStatus,
     waitlistPosition |-> waitlistPosition]

\* variant: the registration is looked at before the admin ids
GetUserStatusForEventRegFirst(owner, admins, regs, invited, declined, mt, userId) ==
    LET regStatus == GetRegistrationStatus(regs, mt, userId)
        registrationStatus ==
            IF regStatus.status # "not_registered" THEN regStatus.status
            ELSE Undefined
    IN IF owner = userId
       THEN StatusResult("owner", registrationStatus, regStatus.waitlistPosition)
       ELSE IF regStatus.status # "not_registered"
       THEN StatusResult(regStatus.status, Undefined, regStatus.waitlistPosition)
       ELSE IF Includes(admins, userId)
       THEN StatusResult("admin", registrationStatus, regStatus.waitlistPosition)
       ELSE IF Includes(invited, userId)
       THEN StatusResult("invited", Undefined, 0)
       ELSE IF Includes(declined, userId)
       THEN StatusResult("declined", Undefined, 0)
       ELSE StatusResult("null", Undefined, 0)

\* getUserStatusForEvent
GetUserStatusForEvent(owner, admins, regs, invited, declined, mt, userId) ==
    LET regStatus == GetRegistrationStatus(regs, mt, userId)
        registrationStatus ==
            IF regStatus.status # "not_registered" THEN regStatus.status
            ELSE Undefined
    IN IF owner = userId
       THEN StatusResult("owner", registrationStatus, regStatus.waitlistPosition)
       ELSE IF Includes(admins, userId)
       THEN StatusResult("admin", registrationStatus, regStatus.waitlistPosition)
       ELSE IF regStatus.status # "not_registered"
       THEN StatusResult(regStatus.status, Undefined, regStatus.waitlistPosition)
       ELSE IF Includes(invited, userId)
       THEN StatusResult("invited", Undefined, 0)
       ELSE IF Includes(declined, userId)
       THEN StatusResult("declined", Undefined, 0)
       ELSE StatusResult("null", Undefined, 0)

\* getWaitlistedTeams: the registrations from index maxTeams on
GetWaitlistedTeams(regs, mt) ==
    IF Len(regs) <= mt THEN <<>> ELSE SubSeq(regs, mt + 1, Len(regs))

\* the waitlist tab: waitlistedRegistrations.map((registration, index) => ...)
\* shows each waitlisted registration with waitlistPosition index + 1
WaitlistTab(regs, mt) ==
    [index \in 1..Len(GetWaitlistedTeams(regs, mt)) |->
        [registration |-> GetWaitlistedTeams(regs, mt)[index],
         waitlistPosition |-> (index - 1) + 1]]

(* The status calculator on its own: the event is any of a bounded set of *)
(* events, and a user's status for it is computed.                        *)

\* id arrays of an event
IdArrays == {<<>>, <<"u1">>, <<"u2">>, <<"u1", "u2">>}

\* teams of ts slots: a captain or a guest in slot 0, the others open
StatusTeams(ts) ==
    {[i \in 1..ts |-> IF i = 1 THEN m ELSE OpenSlot] :
        m \in {UserSlot(u, DisplayNameOf(u)) : u \in Users}
                 \cup {GuestSlot(<<"S">>)}}

\* registrations arrays of up to maxTeams + MaxWaitlist such teams, each
\* user captain of at most one
StatusRegistrations(ts, mt) ==
    UNION {{[i \in 1..n |->
                [id |-> i,
                 createdBy |-> IF f[i][1].type = "user" THEN f[i][1].userId
                               ELSE Creator,
                 members |-> f[i]]] :
              f \in {g \in [1..n -> StatusTeams(ts)] :
                        \A i, j \in 1..n :
                            (i # j /\ g[i][1].type = "user") => g[i] # g[j]}} :
           n \in 0..(mt + MaxWaitlist)}

InitStatus ==
    /\ eventExists = TRUE
    /\ ownerId \in Users
    /\ \E shape \in EventShapes : teamSize = shape[1] /\ maxTeams = shape[2]
    /\ registrations \in StatusRegistrations(teamSize, maxTeams)
    /\ invitedUserIds \in IdArrays
    /\ declinedUserIds \in IdArrays
    /\ adminIds \in IdArrays
    /\ last = NoCall
    /\ rt = RtNone
    /\ version = 0
    /\ tx = [c \in Clients |-> [pc |-> "idle"]]
    /\ InitSide

\* getUserStatusForEvent(event, userId) is evaluated; the event stays as it is
GetUserStatus ==
    \E userId \in Users :
        /\ last' = [op |-> "getUserStatusForEvent",
                    args |-> Args(userId, 0, -1, <<>>),
                    err |-> NoErr,
                    status |-> GetUserStatusForEvent(ownerId, adminIds,
                                   registrations, invitedUserIds,
                                   declinedUserIds, maxTeams, userId),
                    removedIndex |-> -1]
        /\ UNCHANGED <<eventExists, ownerId, teamSize, maxTeams, registrations,
                       invitedUserIds, declinedUserIds, adminIds, rt, version, tx>>
        /\ UNCHANGED sideVars

SpecStatus == InitStatus /\ [][GetUserStatus]_vars

-----------------------------------------------------------------------------
(* Event creation: eventService.create generates an event code, checks it *)
(* against the active events with a query, regenerates on a collision,    *)
(* and adds the document.  The query and addDoc are separate requests, so *)
(* other calls may run between them.                                      *)

\* the variables of the event document the registration operations work on
eventVars ==
    <<eventExists, ownerId, teamSize, maxTeams, registrations, invitedUserIds,
      declinedUserIds, adminIds, last, rt, version, tx>>

\* everything but the events collection and the create calls
nonCodeVars == <<eventVars, utilVars, legacyVars>>

\* isEventCodeUnique(eventCode): no active event carries the code
IsEventCodeUnique(evs, eventCode) ==
    ~\E i \in 1..Len(evs) :
        evs[i].eventCode = eventCode /\ evs[i].status = "active"

\* create calls between their first generateEventCode() and their return
InFlight == {c \in Creators : creators[c].pc \in {"check", "exit"}}

\* let eventCode = generateEventCode(); let attempts = 0
CreateStart ==
    \E c \in Creators, code \in CodeInputs :
        /\ creators[c].pc = "idle"
        /\ Len(events) + Cardinality(InFlight) < MaxEvents
        /\ creators' = [creators EXCEPT ![c] =
                            [pc |-> "check", eventCode |-> code, attempts |-> 0,
                             unique |-> FALSE]]
        /\ UNCHANGED <<events, nonCodeVars>>

\* one evaluation of the while condition, and the loop body if it holds
CreateLoop ==
    \E c \in Creators :
        /\ creators[c].pc = "check"
        /\ LET unique == IsEventCodeUnique(events, creators[c].eventCode)
           IN IF ~unique /\ creators[c].attempts < maxAttempts
              THEN \E code \in CodeInputs :
                      creators' = [creators EXCEPT ![c] =
                                      [pc |-> "check", eventCode |-> code,
                                       attempts |-> creators[c].attempts + 1,
                                       unique |-> unique]]
              ELSE creators' = [creators EXCEPT ![c] =
                                   [pc |-> "exit",
                                    eventCode |-> creators[c].eventCode,
                                    attempts |-> creators[c].attempts,
                                    unique |-> unique]]
        /\ UNCHANGED <<events, nonCodeVars>>

\* after the loop: throw if attempts >= maxAttempts, else addDoc and return
CreateFinish ==
    \E c \in Creators :
        /\ creators[c].pc = "exit"
        /\ IF creators[c].attempts >= maxAttempts
           THEN /\ creators' = [creators EXCEPT ![c].pc = "failed"]
                /\ UNCHANGED events
           ELSE /\ creators' = [creators EXCEPT ![c].pc = "done"]
                /\ events' = Append(events, [eventCode |-> creators[c].eventCode,
                                             status |-> "active"])
        /\ UNCHANGED nonCodeVars

\* the caller has its result and may call again
CreateReturn ==
    \E c \in Creators :
        /\ creators[c].pc \in {"done", "failed"}
        /\ creators' = [creators EXCEPT ![c] = IdleCreator]
        /\ UNCHANGED <<events, nonCodeVars>>

\* eventService.cancel on a document of the collection
Cancel ==
    \E i \in 1..Len(events) :
        /\ events[i].status = "active"
        /\ events' = [events EXCEPT ![i].status = "canceled"]
        /\ UNCHANGED <<creators, nonCodeVars>>

\* eventService.delete on a document of the collection
Delete ==
    \E i \in 1..Len(events) :
        /\ events' = FilterIndexNot(events, i - 1)
        /\ UNCHANGED <<creators, nonCodeVars>>

NextCreate ==
    \/ CreateStart
    \/ CreateLoop
    \/ CreateFinish
    \/ CreateReturn
    \/ Cancel
    \/ Delete

SpecCreate == Init /\ [][NextCreate]_vars

-----------------------------------------------------------------------------
(* Event-code utilities (eventCodeUtils): generateEventCode and           *)
(* isValidEventCode.  A code is a sequence of characters.                 *)

\* variant: the letter I is left in the alphabet
AllowedCharsWithI ==
    <<"A", "B", "C", "D", "E", "F", "G", "H", "I", "J", "K", "L", "M", "N",
      "P", "Q", "R", "S", "T", "U", "V", "W", "X", "Y", "Z", "2", "3", "4",
      "5", "6", "7", "8", "9">>

\* const ALLOWED_CHARS = 'ABCDEFGHJKLMNPQRSTUVWXYZ23456789'
ALLOWED_CHARS ==
    <<"A", "B", "C", "D", "E", "F", "G", "H", "J", "K", "L", "M", "N", "P",
      "Q", "R", "S", "T", "U", "V", "W", "X", "Y", "Z", "2", "3", "4", "5",
      "6", "7", "8", "9">>

LowerLetters ==
    <<"a", "b", "c", "d", "e", "f", "g", "h", "i", "j", "k", "l", "m", "n",
      "o", "p", "q", "r", "s", "t", "u", "v", "w", "x", "y", "z">>

UpperLetters ==
    <<"A", "B", "C", "D", "E", "F", "G", "H", "I", "J", "K", "L", "M", "N",
      "O", "P", "Q", "R", "S", "T", "U", "V", "W", "X", "Y", "Z">>

\* String.prototype.toUpperCase on the characters in use
ToUpperCase(code) ==
    [k \in 1..Len(code) |->
        IF \E n \in 1..Len(LowerLetters) : LowerLetters[n] = code[k]
        THEN UpperLetters[CHOOSE n \in 1..Len(LowerLetters) :
                              LowerLetters[n] = code[k]]
        ELSE code[k]]

\* variant: the length is not looked at
IsValidEventCodeAnyLength(code) ==
    IF code # ToUpperCase(code) THEN FALSE
    ELSE \A k \in 1..Len(code) : Includes(ALLOWED_CHARS, code[k])

\* isValidEventCode
IsValidEventCode(code) ==
    IF Len(code) # 5 THEN FALSE
    ELSE IF code # ToUpperCase(code) THEN FALSE
    ELSE \A k \in 1..Len(code) : Includes(ALLOWED_CHARS, code[k])

\* Math.floor(Math.random() * ALLOWED_CHARS.length): the indices explored
RandomIndexInputs == {0, 7, Len(ALLOWED_CHARS) - 1}

\* the strings isValidEventCode is called with, besides generated codes
CodeStringInputs ==
    {<<c, "A", "B", "2", "9">> : c \in {"A", "Z", "2", "a", "l", "I", "O", "0", "1"}}
    \cup {<<"H", "J", "K", "8", c>> : c \in {"9", "z", "I", "O", "0", "1", "-"}}
    \cup {<<>>, <<"A", "B", "C", "D">>, <<"A", "B", "C", "D", "E", "F">>,
           <<"a", "b", "c", "d", "e">>}

\* generateEventCode is called: let code = ''
GenerateStart ==
    /\ codeCall' = [op |-> "generateEventCode", code |-> <<>>, i |-> 0,
                    returned |-> FALSE, valid |-> FALSE]
    /\ UNCHANGED <<eventVars, codeVars, legacyVars>>

\* one round of the for loop: code += ALLOWED_CHARS[randomIndex]
GenerateLoop ==
    /\ codeCall.op = "generateEventCode"
    /\ ~codeCall.returned
    /\ codeCall.i < 5
    /\ \E randomIndex \in RandomIndexInputs :
          codeCall' = [codeCall EXCEPT
                          !.code = Append(@, At(ALLOWED_CHARS, randomIndex)),
                          !.i = @ + 1]
    /\ UNCHANGED <<eventVars, codeVars, legacyVars>>

\* return code
GenerateReturn ==
    /\ codeCall.op = "generateEventCode"
    /\ ~codeCall.returned
    /\ ~(codeCall.i < 5)
    /\ codeCall' = [codeCall EXCEPT !.returned = TRUE]
    /\ UNCHANGED <<eventVars, codeVars, legacyVars>>

\* isValidEventCode(code) on a given string or on the code just generated
ValidateCode ==
    /\ \E code \in CodeStringInputs \cup
                    (IF codeCall.returned THEN {codeCall.code} ELSE {}) :
          codeCall' = [op |-> "isValidEventCode", code |-> code, i |-> 0,
                       returned |-> TRUE, valid |-> IsValidEventCode(code)]
    /\ UNCHANGED <<eventVars, codeVars, legacyVars>>

NextCodes ==
    \/ GenerateStart
    \/ GenerateLoop
    \/ GenerateReturn
    \/ ValidateCode

SpecCodes == Init /\ [][NextCodes]_vars

-----------------------------------------------------------------------------
(* Legacy flat model (services/eventService.ts): one participant document  *)
(* per user under the event, and the counters joinedCount / waitlistCount  *)
(* on the event document.                                                  *)

\* eventData.maxPlayers of the explored event
maxPlayers == 2

\* joinEvent calls explored
MaxJoins == 4

\* document ids in ascending order, the tie-break of orderBy
LegacyOrder == <<"u1", "u2", "u3">>

IdRank(u) == CHOOSE k \in 1..Len(LegacyOrder) : LegacyOrder[k] = u

\* query(where status == 'waitlisted', orderBy waitlistPosition asc,
\* limit(1)): the id of the first document, the string null when empty
FirstWaitlistedId(parts) ==
    LET waitlisted == {u \in LegacyUsers : parts[u].status = "waitlisted"}
    IN IF waitlisted = {} THEN "null"
       ELSE CHOOSE u \in waitlisted :
              \A v \in waitlisted :
                \/ parts[u].waitlistPosition < parts[v].waitlistPosition
                \/ /\ parts[u].waitlistPosition = parts[v].waitlistPosition
                   /\ IdRank(u) <= IdRank(v)

\* Math.max(0, (count || 1) - 1)
Decrement(count) ==
    LET c == (IF count = 0 THEN 1 ELSE count) - 1
    IN IF c > 0 THEN c ELSE 0

\* joinEvent: one transaction on the event document
JoinEvent ==
    \E userId \in LegacyUsers :
        /\ joinedCount + waitlistCount < MaxJoins
        /\ IF joinedCount < maxPlayers
           THEN /\ participants' = [participants EXCEPT ![userId] =
                                       [status |-> "joined", waitlistPosition |-> 0]]
                /\ joinedCount' = joinedCount + 1
                /\ UNCHANGED waitlistCount
           ELSE /\ participants' = [participants EXCEPT ![userId] =
                                       [status |-> "waitlisted",
                                        waitlistPosition |-> waitlistCount + 1]]
                /\ waitlistCount' = waitlistCount + 1
                /\ UNCHANGED joinedCount
        /\ UNCHANGED <<leavers, eventVars, codeVars, utilVars>>

\* leaveEvent, before its transaction: the waitlist query
LeaveQuery ==
    \E userId \in LegacyUsers :
        /\ leavers[userId].pc = "idle"
        /\ leavers' = [leavers EXCEPT ![userId] =
                          [pc |-> "queried",
                           firstWaitlistedId |-> FirstWaitlistedId(participants)]]
        /\ UNCHANGED <<participants, joinedCount, waitlistCount,
                       eventVars, codeVars, utilVars>>

\* leaveEvent, its transaction; update() of a document that does not exist
\* makes the transaction fail with nothing written
LeaveTx ==
    \E userId \in LegacyUsers :
        LET firstWaitlistedId == leavers[userId].firstWaitlistedId
            wasJoined == participants[userId].status = "joined"
            wasWaitlisted == participants[userId].status = "waitlisted"
            removed == [participants EXCEPT ![userId] = NoParticipant]
        IN /\ leavers[userId].pc = "queried"
           /\ leavers' = [leavers EXCEPT ![userId] = IdleLeaver]
           /\ IF participants[userId].status = "none"
              THEN UNCHANGED <<participants, joinedCount, waitlistCount>>
              ELSE IF wasJoined /\ firstWaitlistedId # "null"
              THEN IF removed[firstWaitlistedId].status = "none"
                   THEN UNCHANGED <<participants, joinedCount, waitlistCount>>
                   ELSE /\ participants' =
                              [removed EXCEPT ![firstWaitlistedId] =
                                  [status |-> "joined", waitlistPosition |-> 0]]
                        /\ waitlistCount' = Decrement(waitlistCount)
                        /\ UNCHANGED joinedCount
              ELSE IF wasJoined
              THEN /\ participants' = removed
                   /\ joinedCount' = Decrement(joinedCount)
                   /\ UNCHANGED waitlistCount
              ELSE /\ participants' = removed
                   /\ waitlistCount' = Decrement(waitlistCount)
                   /\ UNCHANGED joinedCount
           /\ UNCHANGED <<eventVars, codeVars, utilVars>>

NextLegacy ==
    \/ JoinEvent
    \/ LeaveQuery
    \/ LeaveTx

SpecLegacy == Init /\ [][NextLegacy]_vars

-----------------------------------------------------------------------------
(* Properties of the registration operations *)

\* the slots <<team, slot>> (0-based) that hold userId as a user member
UserSlotsOf(regs, userId) ==
    {p \in (0..(Len(regs) - 1)) \X (0..2) :
        /\ p[2] < Len(At(regs, p[1]).members)
        /\ IsUserMember(At(At(regs, p[1]).members, p[2]), userId)}

\* after is before with exactly the element at 0-based index k taken out
IsWithout(after, before, k) ==
    /\ Len(after) = Len(before) - 1
    /\ \A i \in 0..(Len(after) - 1) :
          At(after, i) = At(before, IF i < k THEN i ELSE i + 1)

Succeeded(op) == last'.op = op /\ last'.err = NoErr

\* C1: each user id occurs as a user member in at most one slot of at most
\* one registration, whatever slots callers pass to registerTeam and
\* updateTeamMember
AtMostOneRegistration ==
    \A u \in Users : Cardinality(UserSlotsOf(registrations, u)) <= 1

\* C2: every registration has exactly teamSize member slots
SlotCountInv ==
    \A i \in 1..Len(registrations) : Len(registrations[i].members) = teamSize

SlotCountWitness ==
    /\ Len(registrations) = 2
    /\ teamSize = 2
    /\ last.op = "updateTeamMember"
    /\ last.err = NoErr

\* C4: a call that throws leaves the stored event as it was
ErrorAtomicity ==
    [][last'.err # NoErr => store' = store]_vars

ErrorAtomicityWitness ==
    /\ last.op = "registerTeam"
    /\ last.err = ErrAlreadyRegistered
    /\ Len(registrations) > 0

\* C5: with teamSize slots and an unregistered caller, registerTeam succeeds;
\* it appends one registration with createdBy = userId, slot 0 the user slot
\* of userId and the other slots as the caller passed them, leaves the earlier
\* registrations alone, and returns joined iff there were fewer than maxTeams
\* registrations before the call
RegisterTeamPost ==
    [][/\ (last'.op = "registerTeam") =>
          \A u \in Users, m \in RegisterInputs(teamSize),
            id \in FreshTeamIds(registrations) :
            (eventExists /\ Len(m) = teamSize
                /\ UserSlotsOf(registrations, u) = {})
            => RegisterTeamTx(registrations, declinedUserIds, teamSize, maxTeams,
                              u, DisplayNameOf(u), m, id).err = NoErr
       /\ Succeeded("registerTeam") =>
            LET u == last'.args.userId
                m == last'.args.members
                n == Len(registrations)
                new == registrations'[n + 1]
            IN /\ Len(registrations') = n + 1
               /\ \A i \in 1..n : registrations'[i] = registrations[i]
               /\ new.createdBy = u
               /\ Len(new.members) = Len(m)
               /\ new.members[1] = UserSlot(u, DisplayNameOf(u))
               /\ \A j \in 2..Len(m) : new.members[j] = m[j]
               /\ last'.status = IF n < maxTeams THEN "joined" ELSE "waitlisted"
      ]_vars

RegisterTeamPostWitness ==
    /\ last.op = "registerTeam"
    /\ last.status = "waitlisted"
    /\ teamSize = 2
    /\ registrations[Len(registrations)].members[2].type = "guest"

\* the registration a removing call is aimed at: the one a leaving or
\* declining captain is found in, or the one removeTeam names; -1 if none
AimedIndex(call, regs) ==
    IF call.op \in {"leaveTeam", "declineEvent"}
    THEN IF /\ UserSlotsOf(regs, call.args.userId) # {}
            /\ \E k \in 0..(Len(regs) - 1) :
                  /\ TeamHasUser(At(regs, k), call.args.userId)
                  /\ \A i \in 0..(k - 1) : ~TeamHasUser(At(regs, i), call.args.userId)
                  /\ At(regs, k).createdBy = call.args.userId
         THEN CHOOSE k \in 0..(Len(regs) - 1) :
                  /\ TeamHasUser(At(regs, k), call.args.userId)
                  /\ \A i \in 0..(k - 1) : ~TeamHasUser(At(regs, i), call.args.userId)
         ELSE -1
    ELSE IF call.op = "removeTeam"
            /\ \E k \in 0..(Len(regs) - 1) : At(regs, k).id = call.args.teamId
    THEN CHOOSE k \in 0..(Len(regs) - 1) : At(regs, k).id = call.args.teamId
    ELSE -1

\* C6: when a registration at an index below maxTeams is removed while
\* there is a waitlist, the first waitlisted registration moves to index
\* maxTeams - 1 and counts as joined, in that same step
WaitlistPromotion ==
    [][(/\ last'.op \in {"leaveTeam", "declineEvent", "removeTeam"}
        /\ last'.err = NoErr
        /\ Len(registrations) > maxTeams
        /\ AimedIndex(last', registrations) >= 0
        /\ AimedIndex(last', registrations) < maxTeams)
       => LET promoted == At(registrations, maxTeams)
          IN /\ Len(registrations') >= maxTeams
             /\ At(registrations', maxTeams - 1) = promoted
             /\ \A u \in Users :
                   TeamHasUser(promoted, u)
                   => GetRegistrationStatus(registrations', maxTeams, u).status
                         = "going"
      ]_vars

WaitlistPromotionWitness ==
    /\ last.op \in {"leaveTeam", "declineEvent"}
    /\ last.removedIndex >= 0
    /\ last.removedIndex < maxTeams
    /\ Len(registrations) = maxTeams
    /\ \E u \in Users : TeamHasUser(At(registrations, maxTeams - 1), u)

RoundTrip ==
    rt.stage = "left" => registrations = rt.regs

RoundTripWitness ==
    /\ rt.stage = "left"
    /\ Len(registrations) >= 1
    /\ \E i \in 1..Len(registrations) : registrations[i].createdBy = rt.userId

\* C9: leaveTeam by a user who is no member throws NotRegistered; by a member
\* it succeeds, and on the registration the user is found in it removes the
\* registration when the user is its createdBy, and otherwise turns one slot
\* of the user into an open slot and changes nothing else
LeaveTeamEffect ==
    [][/\ (last'.op = "leaveTeam" /\ eventExists) =>
          \A u \in Users :
            LeaveTeamTx(registrations, declinedUserIds, u).err =
                IF UserSlotsOf(registrations, u) = {}
                THEN ErrNotRegistered ELSE NoErr
       /\ Succeeded("leaveTeam") =>
            LET u == last'.args.userId
                k == CHOOSE k \in 0..(Len(registrations) - 1) :
                        /\ TeamHasUser(At(registrations, k), u)
                        /\ \A i \in 0..(k - 1) : ~TeamHasUser(At(registrations, i), u)
                team == At(registrations, k)
            IN IF team.createdBy = u
               THEN IsWithout(registrations', registrations, k)
               ELSE /\ Len(registrations') = Len(registrations)
                    /\ \A i \in 0..(Len(registrations) - 1) :
                          i # k => At(registrations', i) = At(registrations, i)
                    /\ At(registrations', k).id = team.id
                    /\ At(registrations', k).createdBy = team.createdBy
                    /\ \E j \in 1..Len(team.members) :
                          /\ IsUserMember(team.members[j], u)
                          /\ At(registrations', k).members =
                                [team.members EXCEPT ![j] = OpenSlot]
      ]_vars

LeaveTeamEffectWitness ==
    /\ last.op = "leaveTeam"
    /\ last.err = NoErr
    /\ last.removedIndex = -1
    /\ \E i \in 1..Len(registrations) :
          \E j \in 1..Len(registrations[i].members) :
              registrations[i].members[j] = OpenSlot

\* number of occurrences of x in the array s
Count(s, x) == Cardinality({i \in 1..Len(s) : s[i] = x})

\* C10: declineEvent leaves the registrations leaveTeam would leave and
\* has userId in declinedUserIds exactly once afterwards; by a user who is
\* not registered it throws NotRegistered and declinedUserIds stays
DeclineIsLeavePlusRecord ==
    [][/\ (last'.op = "declineEvent" /\ eventExists) =>
          \A u \in Users :
            LET d == DeclineEventTx(registrations, declinedUserIds, u)
                l == LeaveTeamTx(registrations, declinedUserIds, u)
            IN IF UserSlotsOf(registrations, u) = {}
               THEN d.err = ErrNotRegistered /\ d.declinedUserIds = declinedUserIds
               ELSE d.err = NoErr /\ l.err = NoErr
                    /\ d.registrations = l.registrations
       /\ Succeeded("declineEvent") =>
            /\ registrations' =
                  LeaveTeamTx(registrations, declinedUserIds,
                              last'.args.userId).registrations
            /\ Count(declinedUserIds', last'.args.userId) = 1
            /\ \A u \in Users : u # last'.args.userId =>
                  Count(declinedUserIds', u) = Count(declinedUserIds, u)
       /\ (last'.op = "declineEvent" /\ last'.err = ErrNotRegistered) =>
            declinedUserIds' = declinedUserIds
      ]_vars

DeclineIsLeavePlusRecordWitness ==
    /\ last.op = "declineEvent"
    /\ last.err = NoErr
    /\ last.removedIndex = -1
    /\ Len(declinedUserIds) = 2

\* the errors of the claimSlot preconditions that do not hold for a call
ClaimSlotFailing(regs, ts, teamId, memberIndex, userId) ==
    LET teams == {i \in 1..Len(regs) : regs[i].id = teamId}
        indexOk == 0 <= memberIndex /\ memberIndex < ts
    IN (IF UserSlotsOf(regs, userId) # {} THEN {ErrAlreadyRegistered} ELSE {})
       \cup (IF teams = {} THEN {ErrTeamNotFound} ELSE {})
       \cup (IF ~indexOk THEN {ErrInvalidSlot} ELSE {})
       \cup (IF /\ indexOk
                /\ \E i \in teams :
                      regs[i].members[memberIndex + 1].type \notin {"open", "guest"}
             THEN {ErrNotClaimable} ELSE {})

\* C11: claimSlot succeeds iff userId is nowhere a user member, a registration
\* with teamId exists, 0 <= memberIndex < teamSize and the slot aimed at is
\* open or guest; when it fails, it fails with the error of a precondition
\* that does not hold
ClaimSlotPreconditions ==
    [][/\ (last'.op = "claimSlot" /\ eventExists) =>
          \A u \in Users, teamId \in TeamIdInputs, mi \in MemberIndexInputs :
            LET out == ClaimSlotTx(registrations, declinedUserIds, maxTeams,
                                   teamId, mi, u, DisplayNameOf(u))
                failing == ClaimSlotFailing(registrations, teamSize, teamId, mi, u)
            IN /\ (out.err = NoErr) <=> (failing = {})
               /\ out.err # NoErr => out.err \in failing
       /\ Succeeded("claimSlot") =>
            ClaimSlotFailing(registrations, teamSize, last'.args.teamId,
                             last'.args.memberIndex, last'.args.userId) = {}
       /\ (last'.op = "claimSlot" /\ eventExists /\ last'.err # NoErr) =>
            \E u \in Users, teamId \in TeamIdInputs, mi \in MemberIndexInputs :
                last'.err \in ClaimSlotFailing(registrations, teamSize, teamId, mi, u)
      ]_vars

ClaimSlotPreconditionsWitness ==
    /\ last.op = "claimSlot"
    /\ last.err = ErrNotClaimable
    /\ teamSize = 2
    /\ Len(registrations) = 2

\* C12: a successful claimSlot writes the user slot of userId into the slot
\* aimed at and nothing else: the registrations keep their number and order,
\* the owning registration its id, createdBy and other slots; the status
\* returned is joined iff the owning registration's index is below maxTeams,
\* which is also the index the claimant is found at afterwards
ClaimSlotEffect ==
    [][Succeeded("claimSlot") =>
         LET u == last'.args.userId
             j == last'.args.memberIndex
             k == CHOOSE k \in 0..(Len(registrations) - 1) :
                     At(registrations, k).id = last'.args.teamId
             team == At(registrations, k)
         IN /\ Len(registrations') = Len(registrations)
            /\ \A i \in 0..(Len(registrations) - 1) :
                  i # k => At(registrations', i) = At(registrations, i)
            /\ At(registrations', k).id = team.id
            /\ At(registrations', k).createdBy = team.createdBy
            /\ Len(At(registrations', k).members) = Len(team.members)
            /\ \A i \in 0..(Len(team.members) - 1) :
                  At(At(registrations', k).members, i) =
                     IF i = j THEN UserSlot(u, DisplayNameOf(u))
                     ELSE At(team.members, i)
            /\ last'.status = IF k < maxTeams THEN "joined" ELSE "waitlisted"
            /\ UserSlotsOf(registrations', u) = {<<k, j>>}
            /\ invitedUserIds' = invitedUserIds
            /\ declinedUserIds' = declinedUserIds
      ]_vars

ClaimSlotEffectWitness ==
    /\ last.op = "claimSlot"
    /\ last.err = NoErr
    /\ last.status = "waitlisted"
    /\ Len(registrations) = 2
    /\ At(registrations, 0).members # At(registrations, 1).members

-----------------------------------------------------------------------------
(* Properties of the invited, declined and admin ids *)

\* C13: no user id is in invitedUserIds and in declinedUserIds at once
InvitedDeclinedDisjoint ==
    \A u \in Users : ~(Includes(invitedUserIds, u) /\ Includes(declinedUserIds, u))

\* C14: no user id is in invitedUserIds and a user member of a registration
\* at once
InvitedNotRegistered ==
    \A u \in Users :
        ~(Includes(invitedUserIds, u) /\ UserSlotsOf(registrations, u) # {})

\* C15: right after a successful declineInvitation(userId) or
\* declineEvent(userId), userId is not in invitedUserIds and is in
\* declinedUserIds
FreshDeclineRemovesInvitation ==
    [][(Succeeded("declineInvitation") \/ Succeeded("declineEvent"))
       => /\ ~Includes(invitedUserIds', last'.args.userId)
          /\ Includes(declinedUserIds', last'.args.userId)
      ]_vars

\* C16: registerTeam with teamSize slots by a user who is in declinedUserIds
\* and not registered succeeds, and leaves declinedUserIds as it was
ReRegisterAfterDecline ==
    [][/\ (last'.op = "registerTeam" /\ eventExists) =>
          \A u \in Users, m \in RegisterInputs(teamSize),
            id \in FreshTeamIds(registrations) :
            (/\ Includes(declinedUserIds, u)
             /\ UserSlotsOf(registrations, u) = {}
             /\ Len(m) = teamSize)
            => LET out == RegisterTeamTx(registrations, declinedUserIds, teamSize,
                                         maxTeams, u, DisplayNameOf(u), m, id)
               IN out.err = NoErr /\ out.declinedUserIds = declinedUserIds
       /\ Succeeded("registerTeam") => declinedUserIds' = declinedUserIds
      ]_vars

ReRegisterAfterDeclineWitness ==
    /\ last.op = "registerTeam"
    /\ last.err = NoErr
    /\ Includes(declinedUserIds, last.args.userId)
    /\ UserSlotsOf(registrations, last.args.userId) # {}

SetOps ==
    {"inviteUser", "removeInvitation", "declineInvitation", "addAdmin",
     "removeAdmin"}

\* C17: on an existing event none of inviteUser, removeInvitation,
\* declineInvitation, addAdmin, removeAdmin fails; a second application
\* with the same user id right after the first changes none of the id
\* arrays, and an added id is in its array exactly once
IdempotentSetOps ==
    [][(last'.op \in SetOps /\ eventExists) =>
         LET u == last'.args.userId
         IN /\ last'.err = NoErr
            /\ (last.op = last'.op /\ last.err = NoErr /\ last.args.userId = u)
                  => /\ invitedUserIds' = invitedUserIds
                     /\ declinedUserIds' = declinedUserIds
                     /\ adminIds' = adminIds
            /\ last'.op = "inviteUser" =>
                  /\ Count(invitedUserIds', u) = 1
                  /\ ArrayUnion(invitedUserIds', u) = invitedUserIds'
            /\ last'.op = "removeInvitation" =>
                  /\ Count(invitedUserIds', u) = 0
                  /\ ArrayRemove(invitedUserIds', u) = invitedUserIds'
            /\ last'.op = "declineInvitation" =>
                  /\ Count(invitedUserIds', u) = 0
                  /\ Count(declinedUserIds', u) = 1
                  /\ ArrayRemove(invitedUserIds', u) = invitedUserIds'
                  /\ ArrayUnion(declinedUserIds', u) = declinedUserIds'
            /\ last'.op = "addAdmin" =>
                  /\ Count(adminIds', u) = 1
                  /\ ArrayUnion(adminIds', u) = adminIds'
            /\ last'.op = "removeAdmin" =>
                  /\ Count(adminIds', u) = 0
                  /\ ArrayRemove(adminIds', u) = adminIds'
      ]_vars

IdempotentSetOpsWitness ==
    /\ last.op = "inviteUser"
    /\ last.err = NoErr
    /\ Len(invitedUserIds) = 2
    /\ Len(adminIds) = 2
    /\ Len(declinedUserIds) = 1

-----------------------------------------------------------------------------
(* Properties of the status calculator *)

\* the 0-based indices of the registrations userId is a user member of
IndicesOf(regs, userId) == {p[1] : p \in UserSlotsOf(regs, userId)}

\* C18: getUserStatusForEvent returns the first status that applies in the
\* order owner, admin, going, waitlisted, invited, declined, none; an owner
\* or admin result carries registrationStatus going or waitlisted exactly
\* when the user is a user member of a registration
StatusClassification ==
    last.op = "getUserStatusForEvent" =>
        LET u == last.args.userId
            r == last.status
            idx == IndicesOf(registrations, u)
            going == \E i \in idx : i < maxTeams
            reg == IF idx = {} THEN Undefined
                   ELSE IF going THEN "going" ELSE "waitlisted"
        IN /\ r.status =
                IF ownerId = u THEN "owner"
                ELSE IF \E i \in 1..Len(adminIds) : adminIds[i] = u THEN "admin"
                ELSE IF idx # {} THEN reg
                ELSE IF \E i \in 1..Len(invitedUserIds) : invitedUserIds[i] = u
                THEN "invited"
                ELSE IF \E i \in 1..Len(declinedUserIds) : declinedUserIds[i] = u
                THEN "declined"
                ELSE "null"
           /\ r.status \in {"owner", "admin"} => r.registrationStatus = reg
           /\ r.status \notin {"owner", "admin"} => r.registrationStatus = Undefined

StatusClassificationWitness ==
    /\ last.op = "getUserStatusForEvent"
    /\ last.status.status = "admin"
    /\ last.status.registrationStatus = "waitlisted"
    /\ Includes(invitedUserIds, last.args.userId)

\* C19: a user member of the registration at index i is going iff
\* i < maxTeams and otherwise waitlisted at position i - maxTeams + 1; the
\* waitlisted registrations are the ones from index maxTeams on and carry
\* the positions 1..k in that order
WaitlistPartition ==
    /\ \A u \in Users : \A i \in IndicesOf(registrations, u) :
          LET r == GetRegistrationStatus(registrations, maxTeams, u)
          IN IF i < maxTeams
             THEN r.status = "going"
             ELSE r.status = "waitlisted" /\ r.waitlistPosition = i - maxTeams + 1
    /\ LET tab == WaitlistTab(registrations, maxTeams)
       IN /\ Len(tab) = IF Len(registrations) > maxTeams
                         THEN Len(registrations) - maxTeams ELSE 0
          /\ \A j \in 1..Len(tab) :
                /\ tab[j].waitlistPosition = j
                /\ tab[j].registration = At(registrations, maxTeams + j - 1)

\* C20: updateTeamMember succeeds exactly when a registration with teamId
\* exists, the requester is its createdBy and 0 < memberIndex < teamSize;
\* it then replaces that slot by newMember and changes nothing else; with
\* the registration found, a requester who is not its captain gets
\* NotCaptain, and the captain with index 0 or out of range InvalidSlot
UpdateTeamMemberContract ==
    [][/\ (last'.op = "updateTeamMember" /\ eventExists) =>
          \A u \in Users, teamId \in TeamIdInputs, mi \in MemberIndexInputs,
            nm \in MemberValues :
            LET out == UpdateTeamMemberTx(registrations, declinedUserIds, teamId,
                                          mi, u, nm)
                teams == {i \in 1..Len(registrations) :
                             registrations[i].id = teamId}
                captain == \A i \in teams : registrations[i].createdBy = u
                indexOk == 0 < mi /\ mi < teamSize
            IN /\ (out.err = NoErr) <=> (teams # {} /\ captain /\ indexOk)
               /\ teams = {} => out.err = ErrTeamNotFound
               /\ (teams # {} /\ ~captain) => out.err = ErrNotCaptain
               /\ (teams # {} /\ captain /\ ~indexOk) => out.err = ErrInvalidSlot
       /\ Succeeded("updateTeamMember") =>
            LET j == last'.args.memberIndex
                nm == last'.args.members[1]
                k == CHOOSE k \in 0..(Len(registrations) - 1) :
                        At(registrations, k).id = last'.args.teamId
                team == At(registrations, k)
            IN /\ j > 0 /\ j < teamSize
               /\ team.createdBy = last'.args.userId
               /\ Len(registrations') = Len(registrations)
               /\ \A i \in 0..(Len(registrations) - 1) :
                     i # k => At(registrations', i) = At(registrations, i)
               /\ At(registrations', k) =
                     [team EXCEPT !.members = [team.members EXCEPT ![j + 1] = nm]]
               /\ At(At(registrations', k).members, 0) = At(team.members, 0)
               /\ invitedUserIds' = invitedUserIds
               /\ declinedUserIds' = declinedUserIds
               /\ adminIds' = adminIds
      ]_vars

UpdateTeamMemberContractWitness ==
    /\ last.op = "updateTeamMember"
    /\ last.err = NoErr
    /\ last.args.members = <<GuestSlot(<<"S">>)>>
    /\ Len(registrations) = 2
    /\ \E k \in 0..1 :
          /\ At(registrations, k).id = last.args.teamId
          /\ At(At(registrations, k).members, 1) = GuestSlot(<<"S">>)
          /\ At(At(registrations, 1 - k).members, 1) # GuestSlot(<<"S">>)

-----------------------------------------------------------------------------
(* Properties of guest teams, captains and queue positions *)

\* every slot of the team is a guest slot
AllGuests(team) ==
    \A j \in 1..Len(team.members) : team.members[j].type = "guest"

\* C21: addGuestTeam with teamSize names appends one registration with
\* createdBy = adminUserId and a guest in every slot, and returns joined iff
\* there were fewer than maxTeams registrations before; with another number
\* of names it fails and stores nothing; a registerTeam after it is
\* waitlisted iff its index, guest registrations counted, is >= maxTeams
GuestTeamContract ==
    [][/\ (last'.op = "addGuestTeam" /\ eventExists) =>
          \A a \in AdminInputs, g \in GuestTeamInputs(teamSize),
            id \in FreshTeamIds(registrations) :
            LET out == AddGuestTeamTx(registrations, declinedUserIds, teamSize,
                                      maxTeams, a, g, id)
            IN /\ (out.err = NoErr) <=> (Len(g) = teamSize)
               /\ out.err # NoErr => out.registrations = registrations
       /\ (last'.op = "addGuestTeam" /\ last'.err # NoErr) => store' = store
       /\ Succeeded("addGuestTeam") =>
            LET n == Len(registrations)
                new == registrations'[n + 1]
            IN /\ Len(last'.args.members) = teamSize
               /\ Len(registrations') = n + 1
               /\ \A i \in 1..n : registrations'[i] = registrations[i]
               /\ new.createdBy = last'.args.userId
               /\ Len(new.members) = teamSize
               /\ AllGuests(new)
               /\ last'.status = IF n < maxTeams THEN "joined" ELSE "waitlisted"
       /\ Succeeded("registerTeam") =>
            (last'.status = "waitlisted") <=> (Len(registrations) >= maxTeams)
      ]_vars

GuestTeamContractWitness ==
    /\ last.op = "registerTeam"
    /\ last.status = "waitlisted"
    /\ Len(registrations) = 2
    /\ AllGuests(At(registrations, 0))
    /\ At(registrations, 0).createdBy \in AdminInputs

-----------------------------------------------------------------------------
(* Properties of event creation and event codes *)

\* C22: create stores the event with a candidate code its check found
\* unique, and fails only when every candidate it generated, the last one
\* included, collided with an active event
CreateRetryContract ==
    \A c \in Creators :
        /\ creators[c].pc = "done" => creators[c].unique
        /\ creators[c].pc = "failed" =>
              ~creators[c].unique /\ creators[c].attempts = maxAttempts

\* C23: no two active events carry the same eventCode
ActiveCodesUnique ==
    \A i, j \in 1..Len(events) :
        (i # j /\ events[i].status = "active" /\ events[j].status = "active")
        => events[i].eventCode # events[j].eventCode

\* the decimal digits
Digits ==
    <<"0", "1", "2", "3", "4", "5", "6", "7", "8", "9">>

\* the elements of an array
Elements(s) == {s[k] : k \in 1..Len(s)}

\* C24: a code generateEventCode returns has length 5 and only characters
\* of the alphabet, and isValidEventCode accepts it; isValidEventCode
\* accepts a string iff it has length 5 and all its characters are in the
\* alphabet
GeneratedCodesValid ==
    /\ (codeCall.op = "generateEventCode" /\ codeCall.returned) =>
          /\ Len(codeCall.code) = 5
          /\ Elements(codeCall.code) \subseteq Elements(ALLOWED_CHARS)
          /\ IsValidEventCode(codeCall.code)
    /\ codeCall.op = "isValidEventCode" =>
          (codeCall.valid <=>
              /\ Len(codeCall.code) = 5
              /\ Elements(codeCall.code) \subseteq Elements(ALLOWED_CHARS))
    /\ (/\ codeCall.op = "isValidEventCode"
        /\ \/ Len(codeCall.code) # 5
           \/ Elements(codeCall.code) \cap Elements(LowerLetters) # {}
           \/ Elements(codeCall.code) \cap {"0", "1", "I", "l", "O"} # {})
       => ~codeCall.valid

GeneratedCodesValidWitness ==
    /\ codeCall.op = "isValidEventCode"
    /\ codeCall.valid
    /\ codeCall.code[1] = "9"
    /\ codeCall.code[5] = "A"

\* C25 as stated: the alphabet generateEventCode draws from is the
\* uppercase letters and the digits without 0, 1, I, O, and has 33 symbols
AlphabetOf33 ==
    codeCall.op = "generateEventCode" =>
    /\ Elements(ALLOWED_CHARS) =
          (Elements(UpperLetters) \cup Elements(Digits)) \ {"0", "1", "I", "O"}
    /\ Len(ALLOWED_CHARS) = 33

\* C25, amended: the alphabet generateEventCode draws from is the
\* uppercase letters and the digits without 0, 1, I, O, each once, which
\* makes 32 symbols
AlphabetOf32 ==
    codeCall.op = "generateEventCode" =>
    /\ Elements(ALLOWED_CHARS) =
          (Elements(UpperLetters) \cup Elements(Digits)) \ {"0", "1", "I", "O"}
    /\ Len(ALLOWED_CHARS) = 32
    /\ Cardinality(Elements(ALLOWED_CHARS)) = 32

AlphabetOf32Witness ==
    /\ codeCall.op = "generateEventCode"
    /\ codeCall.returned
    /\ codeCall.code[1] = At(ALLOWED_CHARS, Len(ALLOWED_CHARS) - 1)
    /\ codeCall.code[2] = At(ALLOWED_CHARS, 0)

\* slot 0 of team is the user slot of the user who created it
HasCaptainSlot(team) ==
    /\ At(team.members, 0).type = "user"
    /\ At(team.members, 0).userId = team.createdBy

\* the registrations of regs that carry id
WithId(regs, id) == {k \in 1..Len(regs) : regs[k].id = id}

\* C26: the registration a successful registerTeam appends has the user
\* slot of its creator at slot 0, and a registration that has it keeps it
\* through every operation for as long as it exists
CaptainSlotKept ==
    [][/\ Succeeded("registerTeam") =>
          /\ Len(registrations') = Len(registrations) + 1
          /\ registrations'[Len(registrations')].createdBy = last'.args.userId
          /\ HasCaptainSlot(registrations'[Len(registrations')])
       /\ \A k \in 1..Len(registrations) :
            HasCaptainSlot(registrations[k]) =>
                \A n \in WithId(registrations', registrations[k].id) :
                    /\ registrations'[n].createdBy = registrations[k].createdBy
                    /\ HasCaptainSlot(registrations'[n])]_vars

\* a non-captain left a team whose captain stays, or an admin changed a
\* slot other than the captain's
CaptainSlotKeptWitness ==
    /\ last.op \in {"leaveTeam", "declineEvent", "updateTeamMember", "claimSlot"}
    /\ last.err = NoErr
    /\ \E k \in 1..Len(registrations) :
          /\ HasCaptainSlot(registrations[k])
          /\ \/ registrations[k].id = last.args.teamId
             \/ /\ last.op \in {"leaveTeam", "declineEvent"}
                /\ \E m \in 2..Len(registrations[k].members) :
                      registrations[k].members[m] = OpenSlot

\* C27: of two claimSlot calls by different unregistered users for the
\* same open or guest slot, once both have ended exactly one has succeeded
\* and the other has failed with SlotNotClaimable; the slot holds the user
\* who succeeded and the other user is a member of no registration
ClaimRace ==
    \A c, d \in ClaimClients :
        (/\ c # d
         /\ tx[c].pc \in {"done", "failed"}
         /\ tx[d].pc \in {"done", "failed"}
         /\ tx[c].call.userId # tx[d].call.userId
         /\ tx[c].call.teamId = tx[d].call.teamId
         /\ tx[c].call.memberIndex = tx[d].call.memberIndex
         /\ tx[c].call.claimable
         /\ tx[d].call.claimable
         /\ tx[c].pc = "done" \/ tx[d].pc = "failed")
        => /\ tx[c].pc = "done"
           /\ tx[d].pc = "failed"
           /\ tx[d].err = ErrNotClaimable
           /\ At(At(registrations,
                    TeamIndexOfId(registrations, tx[c].call.teamId)).members,
                 tx[c].call.memberIndex)
                = UserSlot(tx[c].call.userId, DisplayNameOf(tx[c].call.userId))
           /\ ~IsAlreadyRegistered(registrations, tx[d].call.userId)

\* both calls read the slot while it was claimable, and the one that lost
\* the commit ran again
ClaimRaceWitness ==
    /\ tx["c1"].pc = "done"
    /\ tx["c2"].pc = "failed"
    /\ tx["c2"].attempt = 2
    /\ tx["c2"].err = ErrNotClaimable
    /\ tx["c1"].call.claimable
    /\ tx["c2"].call.claimable
    /\ tx["c1"].call.userId # tx["c2"].call.userId
    /\ tx["c1"].call.teamId = tx["c2"].call.teamId
    /\ tx["c1"].call.memberIndex = tx["c2"].call.memberIndex

\* C28: right after a successful leaveTeam(userId) or declineEvent(userId)
\* userId is a user member of no registration, so that registerTeam by
\* userId is not rejected with AlreadyRegistered
LeavingUnregisters ==
    [][(Succeeded("leaveTeam") \/ Succeeded("declineEvent")) =>
          /\ ~IsAlreadyRegistered(registrations', last'.args.userId)
          /\ \A members \in RegisterInputs(teamSize), teamId \in TeamIdInputs :
                RegisterTeamTx(registrations', declinedUserIds', teamSize, maxTeams,
                               last'.args.userId, DisplayNameOf(last'.args.userId),
                               members, teamId).err # ErrAlreadyRegistered]_vars

\* C29: while maxTeams stays as it is, no operation moves a registration
\* that stays in the array to a higher index; a joined registration stays
\* joined and the waitlist position of a waitlisted one does not grow
QueuePositionMonotone ==
    [][maxTeams' = maxTeams =>
          \A k \in 1..Len(registrations) :
              \A n \in WithId(registrations', registrations[k].id) :
                  /\ n <= k
                  /\ StatusOfIndex(k - 1, maxTeams) = "joined" =>
                        StatusOfIndex(n - 1, maxTeams') = "joined"
                  /\ StatusOfIndex(k - 1, maxTeams) = "waitlisted" =>
                        n - maxTeams' <= k - maxTeams]_vars

\* a registration ahead of a waitlisted one has gone and the waitlisted one
\* has moved up into the joined range
QueuePositionMonotoneWitness ==
    /\ last.op \in {"leaveTeam", "declineEvent", "removeTeam"}
    /\ last.err = NoErr
    /\ last.removedIndex = 0
    /\ maxTeams = 1
    /\ Len(registrations) = 1

\* the participant documents with the given status
WithStatus(status) == {u \in LegacyUsers : participants[u].status = status}

\* C30: joinedCount is the number of participant documents with status
\* joined and is at most maxPlayers, and waitlistCount is the number of
\* participant documents with status waitlisted
LegacyCountersExact ==
    /\ joinedCount = Cardinality(WithStatus("joined"))
    /\ joinedCount <= maxPlayers
    /\ waitlistCount = Cardinality(WithStatus("waitlisted"))

=============================================================================
